---------------------------- MODULE Spec2Model ----------------------------
(***************************************************************************)
(* A model of media_sorter.py: the name parser (MediaParser), the          *)
(* destination namer and the sorter (MediaSorter), and the watcher and     *)
(* polling loop (MediaWatchHandler, main).                                 *)
(*                                                                         *)
(* A string is a sequence of one-character strings, so that the regular    *)
(* expressions, str.lower, os.path.splitext and the f-strings of the       *)
(* source are computed character by character.                             *)
(***************************************************************************)
EXTENDS Naturals, Sequences, FiniteSets, TLC

VARIABLES
  watch,      \* the watch folder: folder name -> its files in os.walk order, or Absent
  dest,       \* the paths that exist under TV_FOLDER and MOVIES_FOLDER
  events,     \* directory-created events the observer thread has not delivered yet
  pending,    \* MediaWatchHandler.pending_folders
  observing,  \* observer.start() has run
  pc,         \* where the polling thread is in main()
  todo,       \* the folders the running scan or process_pending still has to visit
  job,        \* the process_folder call in progress, or NoJob
  moves,      \* every shutil.move so far
  copies,     \* every shutil.copy2 so far
  arrivals,   \* how many folders have been created in the watch folder
  returned,   \* the last normal return of process_folder
  raced,      \* an observer-thread step ran between a unique-path decision and its move
  call        \* the call of a pure function under check, with its results

sysvars == <<watch, dest, events, pending, observing, pc, todo, job, moves,
             copies, arrivals, returned, raced>>
vars == <<watch, dest, events, pending, observing, pc, todo, job, moves,
          copies, arrivals, returned, raced, call>>

\* an Optional of Python: None, or a value
None == <<>>
Some(x) == <<x>>

---------------------------------------------------------------------------
(* Characters and strings                                                  *)

LowerChar(c) ==
  CASE c = "A" -> "a" [] c = "B" -> "b" [] c = "C" -> "c" [] c = "D" -> "d"
    [] c = "E" -> "e" [] c = "F" -> "f" [] c = "G" -> "g" [] c = "H" -> "h"
    [] c = "I" -> "i" [] c = "J" -> "j" [] c = "K" -> "k" [] c = "L" -> "l"
    [] c = "M" -> "m" [] c = "N" -> "n" [] c = "O" -> "o" [] c = "P" -> "p"
    [] c = "Q" -> "q" [] c = "R" -> "r" [] c = "S" -> "s" [] c = "T" -> "t"
    [] c = "U" -> "u" [] c = "V" -> "v" [] c = "W" -> "w" [] c = "X" -> "x"
    [] c = "Y" -> "y" [] c = "Z" -> "z" [] OTHER -> c

\* str.lower()
Lower(s) == [i \in 1..Len(s) |-> LowerChar(s[i])]

\* \s of the re module, over the characters the model uses
IsSpace(c) == c \in {" ", "\t"}

\* \d of the re module
IsDigit(c) == c \in {"0", "1", "2", "3", "4", "5", "6", "7", "8", "9"}

DigitValue(c) ==
  CASE c = "0" -> 0 [] c = "1" -> 1 [] c = "2" -> 2 [] c = "3" -> 3
    [] c = "4" -> 4 [] c = "5" -> 5 [] c = "6" -> 6 [] c = "7" -> 7
    [] c = "8" -> 8 [] c = "9" -> 9

DigitChar(n) == <<"0", "1", "2", "3", "4", "5", "6", "7", "8", "9">>[n + 1]

\* s[a:b] of Python with 1-based inclusive bounds
Slice(s, a, b) == IF a > b THEN <<>> ELSE SubSeq(s, a, b)

\* a literal of a pattern compiled with re.IGNORECASE matches s at i
MatchesAt(s, i, lit) ==
  /\ i + Len(lit) - 1 <= Len(s)
  /\ \A k \in 1..Len(lit) : LowerChar(s[i + k - 1]) = LowerChar(lit[k])

\* re.search(lit, s, re.IGNORECASE) is not None
Contains(s, lit) == \E i \in 1..(Len(s) + 1) : MatchesAt(s, i, lit)

\* the concatenations of at most n pieces of P
RECURSIVE NamesUpTo(_, _)
NamesUpTo(P, n) ==
  IF n = 0 THEN {<<>>}
  ELSE LET prev == NamesUpTo(P, n - 1)
       IN  prev \cup {p \o s : p \in P, s \in prev}

\* the lists of at most n elements of S
RECURSIVE ListsUpTo(_, _)
ListsUpTo(S, n) ==
  IF n = 0 THEN {<<>>}
  ELSE LET prev == ListsUpTo(S, n - 1)
       IN  prev \cup {<<x>> \o l : x \in S, l \in prev}

---------------------------------------------------------------------------
(* MediaParser.clean_name                                                  *)

\* os.path.splitext(name)[0] for a name without a path separator: the name
\* is cut at its last dot when a character other than a dot precedes it
SplitextRoot(name) ==
  LET dots == {i \in 1..Len(name) : name[i] = "."}
  IN  IF dots = {} THEN name
      ELSE LET d == CHOOSE i \in dots : \A j \in dots : j <= i
           IN  IF \E k \in 1..(d - 1) : name[k] # "."
               THEN Slice(name, 1, d - 1)
               ELSE name

\* re.sub(lit, '', s, flags=re.IGNORECASE) from position i on: one pass from
\* the left over non-overlapping matches
RECURSIVE SubLiteral(_, _, _)
SubLiteral(s, i, lit) ==
  IF i > Len(s) THEN <<>>
  ELSE IF MatchesAt(s, i, lit) THEN SubLiteral(s, i + Len(lit), lit)
  ELSE <<s[i]>> \o SubLiteral(s, i + 1, lit)

\* re.sub(r'\[.*?\]', '', s) and re.sub(r'\(.*?\)', '', s) from position i
\* on: an opening bracket is removed with everything up to the nearest
\* closing bracket after it
RECURSIVE SubBracket(_, _, _, _)
SubBracket(s, i, open, close) ==
  IF i > Len(s) THEN <<>>
  ELSE LET ends == {j \in (i + 1)..Len(s) : s[j] = close}
       IN  IF s[i] = open /\ ends # {}
           THEN SubBracket(s, (CHOOSE j \in ends : \A k \in ends : j <= k) + 1,
                           open, close)
           ELSE <<s[i]>> \o SubBracket(s, i + 1, open, close)

\* the literal patterns of the junk list, in the order of the source
JunkLiterals ==
  << <<"1","0","8","0","p">>, <<"7","2","0","p">>, <<"2","1","6","0","p">>,
     <<"4","K">>,
     <<"B","l","u","R","a","y">>, <<"B","R","R","i","p">>,
     <<"W","E","B","-","D","L">>, <<"W","E","B","R","i","p">>,
     <<"H","D","T","V">>,
     <<"x","2","6","4">>, <<"x","2","6","5">>, <<"H",".","2","6","4">>,
     <<"H","E","V","C">>,
     <<"A","A","C">>, <<"A","C","3">>, <<"D","T","S">>,
     <<"Y","I","F","Y">>, <<"R","A","R","B","G">>, <<"E","T","R","G">> >>

\* for pattern in junk: name = re.sub(pattern, '', name), from pattern k on
RECURSIVE RemoveJunk(_, _)
RemoveJunk(s, k) ==
  IF k > Len(JunkLiterals) THEN s
  ELSE RemoveJunk(SubLiteral(s, 1, JunkLiterals[k]), k + 1)

\* re.sub(r'[\._]', ' ', s)
DotsToSpaces(s) ==
  [i \in 1..Len(s) |-> IF s[i] \in {".", "_"} THEN " " ELSE s[i]]

\* re.sub(r'\s+', ' ', s): every run of whitespace becomes one space
RECURSIVE CollapseSpaces(_, _)
CollapseSpaces(s, i) ==
  IF i > Len(s) THEN <<>>
  ELSE IF IsSpace(s[i])
       THEN IF i > 1 /\ IsSpace(s[i - 1])
            THEN CollapseSpaces(s, i + 1)
            ELSE <<" ">> \o CollapseSpaces(s, i + 1)
       ELSE <<s[i]>> \o CollapseSpaces(s, i + 1)

\* str.strip()
Strip(s) ==
  LET solid == {i \in 1..Len(s) : ~IsSpace(s[i])}
  IN  IF solid = {} THEN <<>>
      ELSE Slice(s, CHOOSE i \in solid : \A j \in solid : i <= j,
                    CHOOSE i \in solid : \A j \in solid : j <= i)

clean_name(name) ==
  LET root     == SplitextRoot(name)
      unsquare == SubBracket(root, 1, "[", "]")
      unround  == SubBracket(unsquare, 1, "(", ")")
      unjunked == RemoveJunk(unround, 1)
      spaced   == DotsToSpaces(unjunked)
  IN  Strip(CollapseSpaces(spaced, 1))

---------------------------------------------------------------------------
(* MediaParser.TV_PATTERNS and MediaParser.is_tv_show                       *)

NoMatch == [found |-> FALSE]

\* int() of a group of one or two digits
IntOf(ds) ==
  IF Len(ds) = 1 THEN DigitValue(ds[1])
  ELSE 10 * DigitValue(ds[1]) + DigitValue(ds[2])

DigitAt(s, i) == i >= 1 /\ i <= Len(s) /\ IsDigit(s[i])

\* the greedy (\d{1,2}) that ends a pattern, at position i
LastGroup(s, i) ==
  IF DigitAt(s, i + 1) THEN Slice(s, i, i + 1) ELSE Slice(s, i, i)

\* [\s\._-]
IsSeparator(c) == IsSpace(c) \/ c \in {".", "_", "-"}

\* the position after the greedy [\s\._-]* that starts at i
SkipSeparators(s, i) ==
  LET stops == {j \in i..Len(s) : ~IsSeparator(s[j])}
  IN  IF stops = {} THEN Len(s) + 1
      ELSE CHOOSE j \in stops : \A k \in stops : j <= k

\* r'[Ss](\d{1,2})[Ee](\d{1,2})' at position i, the first group nd digits long
SxxEyyWith(s, i, nd) ==
  IF /\ i <= Len(s) /\ LowerChar(s[i]) = "s"
     /\ \A k \in 1..nd : DigitAt(s, i + k)
     /\ i + nd + 1 <= Len(s) /\ LowerChar(s[i + nd + 1]) = "e"
     /\ DigitAt(s, i + nd + 2)
  THEN [found |-> TRUE, start |-> i,
        season |-> IntOf(Slice(s, i + 1, i + nd)),
        episode |-> IntOf(LastGroup(s, i + nd + 2))]
  ELSE NoMatch

\* r'(\d{1,2})x(\d{1,2})' at position i, the first group nd digits long
NxNNWith(s, i, nd) ==
  IF /\ \A k \in 0..(nd - 1) : DigitAt(s, i + k)
     /\ i + nd <= Len(s) /\ LowerChar(s[i + nd]) = "x"
     /\ DigitAt(s, i + nd + 1)
  THEN [found |-> TRUE, start |-> i,
        season |-> IntOf(Slice(s, i, i + nd - 1)),
        episode |-> IntOf(LastGroup(s, i + nd + 1))]
  ELSE NoMatch

SeasonWord == <<"s","e","a","s","o","n">>
EpisodeWord == <<"e","p","i","s","o","d","e">>

\* r'[Ss]eason[\s\._-]*(\d{1,2})[\s\._-]*[Ee]pisode[\s\._-]*(\d{1,2})' at
\* position i, the first group nd digits long
SeasonEpisodeWith(s, i, nd) ==
  LET j == SkipSeparators(s, i + Len(SeasonWord))
      k == SkipSeparators(s, j + nd)
      m == SkipSeparators(s, k + Len(EpisodeWord))
  IN  IF /\ MatchesAt(s, i, SeasonWord)
         /\ \A q \in 0..(nd - 1) : DigitAt(s, j + q)
         /\ MatchesAt(s, k, EpisodeWord)
         /\ DigitAt(s, m)
      THEN [found |-> TRUE, start |-> i,
            season |-> IntOf(Slice(s, j, j + nd - 1)),
            episode |-> IntOf(LastGroup(s, m))]
      ELSE NoMatch

\* pattern p of TV_PATTERNS at position i: the greedy first group is tried
\* two digits long, then one
PatternAt(p, s, i) ==
  LET with(nd) == CASE p = 1 -> SxxEyyWith(s, i, nd)
                    [] p = 2 -> NxNNWith(s, i, nd)
                    [] p = 3 -> SeasonEpisodeWith(s, i, nd)
  IN  IF with(2).found THEN with(2) ELSE with(1)

\* re.search(TV_PATTERNS[p], s, re.IGNORECASE): the leftmost match
Search(p, s) ==
  LET hits == {i \in 1..Len(s) : PatternAt(p, s, i).found}
  IN  IF hits = {} THEN NoMatch
      ELSE PatternAt(p, s, CHOOSE i \in hits : \A j \in hits : i <= j)

NotTv == [is_tv |-> FALSE]

\* the tuple is_tv_show returns for a match
TvInfo(name, m) ==
  [is_tv |-> TRUE,
   show_name |-> clean_name(Strip(Slice(name, 1, m.start - 1))),
   season |-> m.season,
   episode |-> m.episode]

\* for pattern in self.TV_PATTERNS, from pattern p on; m is what re.search
\* gives for pattern p
RECURSIVE TvLoop(_, _)
TvStep(name, p, m) ==
  IF m.found THEN TvInfo(name, m) ELSE TvLoop(name, p + 1)

TvLoop(name, p) ==
  IF p > 3 THEN NotTv ELSE TvStep(name, p, Search(p, name))

\* a parser that takes the match that starts first in the name, whatever
\* its pattern
is_tv_show_leftmost(name) ==
  LET ms == {m \in {Search(p, name) : p \in 1..3} : m.found}
  IN  IF ms = {} THEN NotTv
      ELSE TvInfo(name, CHOOSE m \in ms : \A o \in ms : m.start <= o.start)

is_tv_show(name) == TvLoop(name, 1)

---------------------------------------------------------------------------
(* MediaParser.search_tmdb and MediaParser.get_proper_name                  *)
(*                                                                         *)
(* What json() gives is a tagged value: null, a string, a number, a list   *)
(* or a dict (a function from its keys); "invalid" is a body json() cannot *)
(* parse.  A call ends with a value or with an exception that leaves it.   *)

JNull == [t |-> "null"]
JStr(v) == [t |-> "str", v |-> v]
JNum(n) == [t |-> "num", v |-> n]
JList(l) == [t |-> "list", v |-> l]
JDict(d) == [t |-> "dict", v |-> d]

Returned(v) == [status |-> "returned", value |-> v]
Raised(e) == [status |-> "raised", error |-> e]

\* bool(x) of Python
Truthy(j) ==
  CASE j.t = "null" -> FALSE
    [] j.t = "str"  -> j.v # <<>>
    [] j.t = "num"  -> j.v # 0
    [] j.t = "list" -> j.v # <<>>
    [] j.t = "dict" -> DOMAIN j.v # {}

\* d.get(key, default) for a dict d
DictGet(d, key, default) == IF key \in DOMAIN d.v THEN d.v[key] ELSE default

\* what search_tmdb returns: every exception raised between session.get
\* and results[0] is caught there, and the function then returns None
search_tmdb(lookup) ==
  IF ~lookup.key THEN JNull
  ELSE IF lookup.transport # "ok" THEN JNull          \* get, raise_for_status
  ELSE IF lookup.body.t = "invalid" THEN JNull        \* json() raises
  ELSE IF lookup.body.t # "dict" THEN JNull           \* no attribute 'get'
  ELSE LET results == DictGet(lookup.body, <<"results">>, JList(<<>>))
       IN  IF ~Truthy(results) THEN JNull
           ELSE CASE results.t = "list" -> results.v[1]
                  [] results.t = "str"  -> JStr(<<results.v[1]>>)
                  [] OTHER -> JNull                   \* results[0] raises

\* f"{title} ({year})"
TitleWithYear(title, year) == title \o <<" ", "(">> \o year \o <<")">>

\* get_proper_name after its call of clean_name and of search_tmdb
ProperName(cleaned, media_type, result) ==
      IF ~Truthy(result) THEN Returned(cleaned)
      ELSE IF result.t # "dict" THEN Raised("AttributeError")
      ELSE IF media_type = "tv"
           THEN Returned(DictGet(result, <<"name">>, JStr(cleaned)).v)
      ELSE LET title == DictGet(result, <<"title">>, JStr(cleaned)).v
               date  == DictGet(result, <<"release_date">>, JStr(<<>>))
           IN  IF date.t # "str" THEN Raised("TypeError")
               ELSE LET year == Slice(date.v, 1, IF Len(date.v) < 4
                                                 THEN Len(date.v) ELSE 4)
                    IN  IF year # <<>>
                        THEN Returned(TitleWithYear(title, year))
                        ELSE Returned(title)

get_proper_name(name, media_type, lookup) ==
  ProperName(clean_name(name), media_type, search_tmdb(lookup))

---------------------------------------------------------------------------
(* pathlib: PurePath.suffix and PurePath.stem of a file name                *)

\* the position of the dot that starts the suffix, or 0: the last dot of the
\* name, unless it is the first or the last character
SuffixDot(name) ==
  LET dots == {i \in 1..Len(name) : name[i] = "."}
  IN  IF dots = {} THEN 0
      ELSE LET d == CHOOSE i \in dots : \A j \in dots : j <= i
           IN  IF d > 1 /\ d < Len(name) THEN d ELSE 0

PathSuffix(name) ==
  IF SuffixDot(name) = 0 THEN <<>>
  ELSE Slice(name, SuffixDot(name), Len(name))

PathStem(name) ==
  IF SuffixDot(name) = 0 THEN name
  ELSE Slice(name, 1, SuffixDot(name) - 1)

---------------------------------------------------------------------------
(* MediaSorter.match_subtitle_to_video                                     *)

\* the alternatives of r'\.(eng|english|forced|sdh|cc|hi)$'
SubtitleTags ==
  { <<".","e","n","g">>, <<".","e","n","g","l","i","s","h">>,
    <<".","f","o","r","c","e","d">>, <<".","s","d","h">>,
    <<".","c","c">>, <<".","h","i">> }

\* re.sub(r'\.(eng|english|forced|sdh|cc|hi)$', '', s, flags=re.IGNORECASE)
StripSubtitleTag(s) ==
  LET tails == {t \in SubtitleTags :
                  Len(t) <= Len(s) /\ MatchesAt(s, Len(s) - Len(t) + 1, t)}
  IN  IF tails = {} THEN s
      ELSE LET t == CHOOSE u \in tails : TRUE
           IN  Slice(s, 1, Len(s) - Len(t))

\* a in b, for str
IsSubstring(a, b) ==
  \E i \in 1..(Len(b) + 1) :
    i + Len(a) - 1 <= Len(b) /\ Slice(b, i, i + Len(a) - 1) = a

\* the first loop, from candidate i on: the first video whose name is the
\* stripped or the unstripped subtitle name
RECURSIVE ExactLoop(_, _, _, _)
ExactLoop(sub_name_clean, sub_name, video_files, i) ==
  IF i > Len(video_files) THEN None
  ELSE LET video_name == Lower(PathStem(video_files[i]))
       IN  IF sub_name_clean = video_name \/ sub_name = video_name
           THEN Some(video_files[i])
           ELSE ExactLoop(sub_name_clean, sub_name, video_files, i + 1)

\* the second loop, from candidate i on
RECURSIVE PartialLoop(_, _, _)
PartialLoop(sub_name_clean, video_files, i) ==
  IF i > Len(video_files) THEN None
  ELSE LET video_name == Lower(PathStem(video_files[i]))
       IN  IF \/ IsSubstring(sub_name_clean, video_name)
              \/ IsSubstring(video_name, sub_name_clean)
           THEN Some(video_files[i])
           ELSE PartialLoop(sub_name_clean, video_files, i + 1)

\* a matcher with one pass per rule: the stripped name against every
\* candidate before the unstripped name against any
match_strict_priority(subtitle_path, video_files) ==
  LET sub_name       == Lower(PathStem(subtitle_path))
      sub_name_clean == StripSubtitleTag(sub_name)
      a == ExactLoop(sub_name_clean, sub_name_clean, video_files, 1)
      b == ExactLoop(sub_name, sub_name, video_files, 1)
  IN  IF a # None THEN a
      ELSE IF b # None THEN b
      ELSE PartialLoop(sub_name_clean, video_files, 1)

match_subtitle_to_video(subtitle_path, video_files) ==
  LET sub_name       == Lower(PathStem(subtitle_path))
      sub_name_clean == StripSubtitleTag(sub_name)
      exact          == ExactLoop(sub_name_clean, sub_name, video_files, 1)
  IN  IF exact # None THEN exact
      ELSE PartialLoop(sub_name_clean, video_files, 1)

---------------------------------------------------------------------------
(* MediaSorter.get_unique_filename                                         *)
(*                                                                         *)
(* A path is the sequence of its components; ex is the set of paths that   *)
(* exist.  The resolution None is the empty string: the source tests it    *)
(* with "if resolution".                                                   *)

NoResolution == <<>>

\* str(n) for a natural number
RECURSIVE Decimal(_)
Decimal(n) ==
  IF n < 10 THEN <<DigitChar(n)>>
  ELSE Decimal(n \div 10) \o <<DigitChar(n % 10)>>

\* f"{base_name}.{resolution}{extension}" or f"{base_name}{extension}"
CandidateName(base_name, extension, resolution) ==
  IF resolution # <<>>
  THEN base_name \o <<".">> \o resolution \o extension
  ELSE base_name \o extension

\* f"{base_name}.{resolution}.v{version}{extension}" or
\* f"{base_name}.v{version}{extension}"
VersionedName(base_name, extension, resolution, version) ==
  IF resolution # <<>>
  THEN base_name \o <<".">> \o resolution \o <<".", "v">>
         \o Decimal(version) \o extension
  ELSE base_name \o <<".", "v">> \o Decimal(version) \o extension

\* dest_folder / name
Join(dest_folder, name) == Append(dest_folder, name)

\* the while loop from `version` on; probed lists the versions whose path
\* was tested with exists()
RECURSIVE VersionLoop(_, _, _, _, _, _, _)
VersionLoop(ex, dest_folder, base_name, extension, resolution, version, probed) ==
  LET versioned_path ==
        Join(dest_folder, VersionedName(base_name, extension, resolution, version))
  IN  IF versioned_path \notin ex
      THEN [status |-> "returned", path |-> versioned_path,
            probed |-> Append(probed, version)]
      ELSE VersionLoop(ex, dest_folder, base_name, extension, resolution,
                       version + 1, Append(probed, version))

\* a namer that returns the first candidate without asking whether it exists
get_unique_filename_unchecked(ex, dest_folder, base_name, extension, resolution) ==
  [status |-> "returned",
   path |-> Join(dest_folder, CandidateName(base_name, extension, resolution)),
   probed |-> <<>>]

\* a namer whose loop steps over every other version
RECURSIVE SkippingLoop(_, _, _, _, _, _, _)
SkippingLoop(ex, dest_folder, base_name, extension, resolution, version, probed) ==
  LET versioned_path ==
        Join(dest_folder, VersionedName(base_name, extension, resolution, version))
  IN  IF versioned_path \notin ex
      THEN [status |-> "returned", path |-> versioned_path,
            probed |-> Append(probed, version)]
      ELSE SkippingLoop(ex, dest_folder, base_name, extension, resolution,
                        version + 2, Append(probed, version))

get_unique_filename_skipping(ex, dest_folder, base_name, extension, resolution) ==
  LET candidate_path ==
        Join(dest_folder, CandidateName(base_name, extension, resolution))
  IN  IF candidate_path \notin ex
      THEN [status |-> "returned", path |-> candidate_path, probed |-> <<1>>]
      ELSE SkippingLoop(ex, dest_folder, base_name, extension, resolution,
                        2, <<1>>)

\* a namer that gives up after version 2 and raises
get_unique_filename_capped(ex, dest_folder, base_name, extension, resolution) ==
  LET r == VersionLoop(ex, dest_folder, base_name, extension, resolution, 2, <<1>>)
  IN  IF Join(dest_folder, CandidateName(base_name, extension, resolution)) \notin ex
      THEN [status |-> "returned",
            path |-> Join(dest_folder, CandidateName(base_name, extension, resolution)),
            probed |-> <<1>>]
      ELSE IF Len(r.probed) > 2
           THEN [status |-> "raised", error |-> "CollisionExhaustion",
                 probed |-> r.probed]
           ELSE r

\* the existing file's own resolution tag is computed and then ignored (the
\* branch that reads it is `pass`), so it is not part of the result
get_unique_filename(ex, dest_folder, base_name, extension, resolution) ==
  LET candidate_path ==
        Join(dest_folder, CandidateName(base_name, extension, resolution))
  IN  IF candidate_path \notin ex
      THEN [status |-> "returned", path |-> candidate_path, probed |-> <<1>>]
      ELSE VersionLoop(ex, dest_folder, base_name, extension, resolution,
                       2, <<1>>)

---------------------------------------------------------------------------
(* MediaParser.detect_resolution and the file finders of MediaSorter       *)

\* RESOLUTION_PATTERNS: the alternatives of each pattern and its resolution
RESOLUTION_PATTERNS ==
  << [alts |-> {<<"2","1","6","0","p">>, <<"4","K">>, <<"U","H","D">>},
      resolution |-> <<"2","1","6","0","p">>],
     [alts |-> {<<"1","0","8","0","p">>, <<"F","H","D">>},
      resolution |-> <<"1","0","8","0","p">>],
     [alts |-> {<<"7","2","0","p">>, <<"H","D">>},
      resolution |-> <<"7","2","0","p">>],
     [alts |-> {<<"4","8","0","p">>, <<"S","D">>},
      resolution |-> <<"4","8","0","p">>] >>

\* for pattern, resolution in RESOLUTION_PATTERNS, from pattern k on
RECURSIVE ResolutionLoop(_, _)
ResolutionLoop(filename, k) ==
  IF k > Len(RESOLUTION_PATTERNS) THEN NoResolution
  ELSE IF \E a \in RESOLUTION_PATTERNS[k].alts : Contains(filename, a)
       THEN RESOLUTION_PATTERNS[k].resolution
       ELSE ResolutionLoop(filename, k + 1)

detect_resolution(filename) == ResolutionLoop(filename, 1)

VIDEO_EXTENSIONS ==
  { <<".","m","k","v">>, <<".","m","p","4">>, <<".","a","v","i">>,
    <<".","m","o","v">>, <<".","w","m","v">>, <<".","f","l","v">>,
    <<".","m","4","v">>, <<".","m","p","g">>, <<".","m","p","e","g">> }

SUBTITLE_EXTENSIONS ==
  { <<".","s","r","t">>, <<".","s","u","b">>, <<".","a","s","s">>,
    <<".","s","s","a">>, <<".","v","t","t">>, <<".","i","d","x">>,
    <<".","s","u","p">> }

IsVideo(file) == Lower(PathSuffix(file)) \in VIDEO_EXTENSIONS
IsSubtitle(file) == Lower(PathSuffix(file)) \in SUBTITLE_EXTENSIONS

\* the files of a folder, in os.walk order, that pass the extension test
find_video_files(files) == SelectSeq(files, IsVideo)
find_subtitle_files(files) == SelectSeq(files, IsSubtitle)

---------------------------------------------------------------------------
(* MediaSorter.copy_subtitles, sort_tv_episodes and sort_movie             *)

TV_FOLDER == << <<"T","V">> >>
MOVIES_FOLDER == << <<"M","o","v","i","e","s">> >>

\* TMDB_API_KEY defaults to '': the sorter runs without a lookup
NoLookup == [key |-> FALSE]

\* folder / name of pathlib: joining an empty name leaves the folder
Child(folder, name) == IF name = <<>> THEN folder ELSE Append(folder, name)

\* f"{n:02d}"
TwoDigits(n) == IF n < 10 THEN <<"0", DigitChar(n)>> ELSE Decimal(n)

\* the language and variant suffix copy_subtitles derives from sub_stem
LangSuffix(sub_stem) ==
  LET has(lit) == Contains(sub_stem, lit)
      lang ==
        IF has(<<".","e","n","g">>) \/ has(<<".","e","n","g","l","i","s","h">>)
          THEN <<".","e","n">>
        ELSE IF has(<<".","s","p","a">>) \/ has(<<".","s","p","a","n","i","s","h">>)
          THEN <<".","e","s">>
        ELSE IF has(<<".","f","r","e">>) \/ has(<<".","f","r","e","n","c","h">>)
          THEN <<".","f","r">>
        ELSE IF has(<<".","g","e","r">>) \/ has(<<".","g","e","r","m","a","n">>)
          THEN <<".","d","e">>
        ELSE <<>>
  IN  IF has(<<".","f","o","r","c","e","d">>)
        THEN lang \o <<".","f","o","r","c","e","d">>
      ELSE IF has(<<".","s","d","h">>) \/ has(<<".","c","c">>) \/ has(<<".","h","i">>)
        THEN lang \o <<".","s","d","h">>
      ELSE lang

\* what a created folder holds, in os.walk order
FolderContents ==
  LET tv   == <<"a","s","1","e","1",".","m","k","v">>
      film == <<"b",".","m","k","v">>
      sub  == <<"a","s","1","e","1",".","s","r","t">>
      odd  == <<"z",".","s","r","t">>
  IN  { <<tv, sub>>, <<film, tv>>, <<film, odd>>, <<tv, film, odd>> }

\* the file names of the created folders
FolderFiles == UNION {{c[i] : i \in 1..Len(c)} : c \in FolderContents}

\* what is left of a folder's files when some of them have been moved out
Keep(files, S) == SelectSeq(files, LAMBDA x : x \in S)
Remainders == {Keep(c, S) : c \in FolderContents, S \in SUBSET FolderFiles}

\* find_video_files and find_subtitle_files over the program's folders
VideoFilesOf == [files \in Remainders |-> find_video_files(files)]
SubtitleFilesOf == [files \in Remainders |-> find_subtitle_files(files)]

\* detect_resolution over the program's file names
ResolutionOf == [file \in FolderFiles |-> detect_resolution(file)]

\* sub_stem and lang_suffix of copy_subtitles, over the program's file names
LangSuffixOf == [sub_file \in FolderFiles |-> LangSuffix(Lower(PathStem(sub_file)))]

\* new_name of copy_subtitles
SubtitleName(video_name_base, resolution, lang_suffix, sub_ext) ==
  IF resolution # <<>>
  THEN video_name_base \o <<".">> \o resolution \o lang_suffix \o sub_ext
  ELSE video_name_base \o lang_suffix \o sub_ext

\* "Handle duplicates for subtitles too"
SubtitleUnique(ex, dest_folder, base, sub_ext, resolution, dest_path) ==
  IF dest_path \in ex
  THEN get_unique_filename(ex, dest_folder, base, sub_ext, resolution).path
  ELSE dest_path

SubtitleDestWith(ex, dest_folder, video_name_base, resolution, lang_suffix, sub_ext) ==
  SubtitleUnique(ex, dest_folder, video_name_base \o lang_suffix, sub_ext,
                 resolution,
                 Join(dest_folder, SubtitleName(video_name_base, resolution,
                                                lang_suffix, sub_ext)))

\* the destination copy_subtitles gives one subtitle file, ex being the
\* paths that exist when it is reached
SubtitleDest(ex, sub_file, dest_folder, video_name_base, resolution) ==
  SubtitleDestWith(ex, dest_folder, video_name_base, resolution,
                   LangSuffixOf[sub_file], PathSuffix(sub_file))

\* the loop of copy_subtitles from subtitle i on: every subtitle file of the
\* source folder is copied, whatever video is being sorted.  The result is
\* the list of the copies made, in order.
RECURSIVE CopyLoop(_, _, _, _, _, _)
CopyStep(ex, subtitle_files, i, dest_folder, video_name_base, resolution, dst) ==
  <<[sub |-> subtitle_files[i], dst |-> dst, overwrote |-> dst \in ex]>>
    \o CopyLoop(ex \cup {dst}, subtitle_files, i + 1, dest_folder,
                video_name_base, resolution)

CopyLoop(ex, subtitle_files, i, dest_folder, video_name_base, resolution) ==
  IF i > Len(subtitle_files) THEN <<>>
  ELSE CopyStep(ex, subtitle_files, i, dest_folder, video_name_base,
                resolution,
                SubtitleDest(ex, subtitle_files[i], dest_folder,
                             video_name_base, resolution))

copy_subtitles(ex, files, dest_folder, video_name_base, resolution) ==
  CopyLoop(ex, SubtitleFilesOf[files], 1, dest_folder, video_name_base,
           resolution)

\* sort_tv_episodes skips a video whose own name matches no TV pattern;
\* sort_movie skips nothing
\* a sorter that asks every video for a TV pattern, whatever the folder is
Skips_any(kind, video_file) == ~is_tv_show(video_file).is_tv

Skips(kind, video_file) == kind = "tv" /\ ~is_tv_show(video_file).is_tv

\* season_folder and base_name of sort_tv_episodes
TvTarget(show_name, season, episode) ==
  [folder |-> Child(Child(TV_FOLDER, show_name),
                    <<"S","e","a","s","o","n"," ">> \o TwoDigits(season)),
   base_name |-> show_name \o <<" ","-"," ","S">> \o TwoDigits(season)
                   \o <<"E">> \o TwoDigits(episode)]

TvTargetOf(tv_info) ==
  TvTarget(get_proper_name(tv_info.show_name, "tv", NoLookup).value,
           tv_info.season, tv_info.episode)

\* movie_folder of sort_movie; the base name is the movie name
MovieTarget(movie_name) ==
  [folder |-> Child(MOVIES_FOLDER, movie_name), base_name |-> movie_name]

\* where a video goes: the folder the sorter makes for it and the base name
\* of its file
Target(kind, folder_name, video_file) ==
  IF kind = "tv" THEN TvTargetOf(is_tv_show(video_file))
  ELSE MovieTarget(get_proper_name(folder_name, "movie", NoLookup).value)

\* dest_path of sort_tv_episodes and of sort_movie, t being the target
DestIn(ex, t, video_file) ==
  get_unique_filename(ex, t.folder, t.base_name, PathSuffix(video_file),
                      ResolutionOf[video_file]).path

\* process_folder decides between sort_tv_episodes and sort_movie: the
\* folder name first, then the name of the first video file
Kind(folder_name, files) ==
  IF is_tv_show(folder_name).is_tv THEN "tv"
  ELSE IF find_video_files(files) # <<>>
          /\ is_tv_show(find_video_files(files)[1]).is_tv THEN "tv"
  ELSE "movie"

\* folder.name.startswith('.')
Hidden(folder_name) == folder_name # <<>> /\ folder_name[1] = "."

---------------------------------------------------------------------------
(* The system at rest, for the specifications of the pure functions         *)

Absent == [present |-> FALSE]
Present(files) == [present |-> TRUE, files |-> files]
NoJob == [active |-> FALSE]

FolderNames == { <<"m">>, <<"a","s","1","e","1">> }

SysInit ==
  /\ watch = [f \in FolderNames |-> Absent]
  /\ dest = {}
  /\ events = {}
  /\ pending = {}
  /\ observing = FALSE
  /\ pc = "initial_scan"
  /\ todo = None
  /\ job = NoJob
  /\ moves = <<>>
  /\ copies = <<>>
  /\ arrivals = 0
  /\ returned = None
  /\ raced = FALSE

---------------------------------------------------------------------------
(* The program: main() on the polling thread, the observer thread that     *)
(* calls on_created, and the downloads that create folders                 *)

MaxArrivals == 2

\* the orders in which iterdir() or list(set) may give the members of S
Orders(S) ==
  {o \in [1..Cardinality(S) -> S] :
     \A i, j \in 1..Cardinality(S) : i # j => o[i] # o[j]}

Deciding == job.active /\ job.dest_path # None


\* Kind, Skips and Target over the names of the program's folders and
\* files: the parser's answers depend on the names only
KindOf == [f \in FolderNames, files \in Remainders |-> Kind(f, files)]
SkipsOf == [kind \in {"tv", "movie"}, v \in FolderFiles |-> Skips(kind, v)]
TargetOf ==
  [kind \in {"tv", "movie"}, f \in FolderNames, v \in FolderFiles |->
     IF Skips(kind, v) THEN [folder |-> <<>>, base_name |-> <<>>]
     ELSE Target(kind, f, v)]

Init == SysInit /\ call = [op |-> "none"]

\* a download creates a folder in the watch folder; the observer, once
\* started, queues an event for it
Arrive(f, files) ==
  /\ ~watch[f].present
  /\ arrivals < MaxArrivals
  /\ watch' = [watch EXCEPT ![f] = Present(files)]
  /\ arrivals' = arrivals + 1
  /\ events' = IF observing THEN events \cup {f} ELSE events
  /\ raced' = (raced \/ Deciding)
  /\ UNCHANGED <<dest, pending, observing, pc, todo, job, moves, copies,
                 returned, call>>

\* MediaWatchHandler.on_created, on the observer thread
OnCreated(f) ==
  /\ f \in events
  /\ events' = events \ {f}
  /\ pending' = IF ~Hidden(f) THEN pending \cup {f} ELSE pending
  /\ raced' = (raced \/ Deciding)
  /\ UNCHANGED <<watch, dest, observing, pc, todo, job, moves, copies,
                 arrivals, returned, call>>

\* process_folder up to the call of sort_tv_episodes or sort_movie
StartJob(f, from_pending) ==
  [active |-> TRUE, folder |-> f, kind |-> KindOf[f, watch[f].files],
   from_pending |-> from_pending, before |-> watch[f].files,
   video_files |-> VideoFilesOf[watch[f].files],
   videos |-> VideoFilesOf[watch[f].files], dest_path |-> None,
   first_move |-> Len(moves) + 1]

\* scan_watch_folder starts: iterdir() lists the watch folder
ScanBegin ==
  /\ pc \in {"initial_scan", "periodic_scan"} /\ todo = None /\ ~job.active
  /\ todo' \in {Some(o) : o \in Orders({f \in FolderNames : watch[f].present})}
  /\ UNCHANGED <<watch, dest, events, pending, observing, pc, job, moves,
                 copies, arrivals, returned, raced, call>>

\* the next item of the scan: process_folder for a directory that is not hidden
ScanVisit ==
  /\ pc \in {"initial_scan", "periodic_scan"} /\ todo # None /\ todo[1] # <<>>
  /\ ~job.active
  /\ todo' = Some(Tail(todo[1]))
  /\ job' = IF watch[Head(todo[1])].present /\ ~Hidden(Head(todo[1]))
            THEN StartJob(Head(todo[1]), FALSE) ELSE NoJob
  /\ UNCHANGED <<watch, dest, events, pending, observing, pc, moves, copies,
                 arrivals, returned, raced, call>>

\* scan_watch_folder returns
ScanEnd ==
  /\ pc \in {"initial_scan", "periodic_scan"} /\ todo = Some(<<>>) /\ ~job.active
  /\ todo' = None
  /\ pc' = IF pc = "initial_scan" THEN "start_observer" ELSE "process_pending"
  /\ UNCHANGED <<watch, dest, events, pending, observing, job, moves, copies,
                 arrivals, returned, raced, call>>

\* observer.schedule and observer.start
StartObserver ==
  /\ pc = "start_observer"
  /\ observing' = TRUE
  /\ pc' = "sleep"
  /\ UNCHANGED <<watch, dest, events, pending, todo, job, moves, copies,
                 arrivals, returned, raced, call>>

\* time.sleep(POLL_INTERVAL)
Sleep ==
  /\ pc = "sleep"
  /\ pc' = "periodic_scan"
  /\ UNCHANGED <<watch, dest, events, pending, observing, todo, job, moves,
                 copies, arrivals, returned, raced, call>>

\* process_pending starts: list(self.pending_folders)
PendingBegin ==
  /\ pc = "process_pending" /\ todo = None /\ ~job.active
  /\ todo' \in {Some(o) : o \in Orders(pending)}
  /\ UNCHANGED <<watch, dest, events, pending, observing, pc, job, moves,
                 copies, arrivals, returned, raced, call>>

\* the next pending folder: process_folder if folder.exists()
PendingVisit ==
  /\ pc = "process_pending" /\ todo # None /\ todo[1] # <<>> /\ ~job.active
  /\ todo' = Some(Tail(todo[1]))
  /\ job' = IF watch[Head(todo[1])].present
            THEN StartJob(Head(todo[1]), TRUE) ELSE NoJob
  /\ UNCHANGED <<watch, dest, events, pending, observing, pc, moves, copies,
                 arrivals, returned, raced, call>>

\* process_pending returns
PendingEnd ==
  /\ pc = "process_pending" /\ todo = Some(<<>>) /\ ~job.active
  /\ todo' = None
  /\ pc' = "sleep"
  /\ UNCHANGED <<watch, dest, events, pending, observing, job, moves, copies,
                 arrivals, returned, raced, call>>

\* sort_tv_episodes: "Skipping non-TV file", continue
SkipVideo ==
  /\ job.active /\ job.dest_path = None /\ job.videos # <<>>
  /\ SkipsOf[job.kind, Head(job.videos)]
  /\ job' = [job EXCEPT !.videos = Tail(@)]
  /\ UNCHANGED <<watch, dest, events, pending, observing, pc, todo, moves,
                 copies, arrivals, returned, raced, call>>

\* the sorter computes dest_path for the next video: get_unique_filename
DecideDest ==
  /\ job.active /\ job.dest_path = None /\ job.videos # <<>>
  /\ ~SkipsOf[job.kind, Head(job.videos)]
  /\ job' = [job EXCEPT
               !.dest_path =
                 Some(DestIn(dest,
                             TargetOf[job.kind, job.folder, Head(job.videos)],
                             Head(job.videos)))]
  /\ UNCHANGED <<watch, dest, events, pending, observing, pc, todo, moves,
                 copies, arrivals, returned, raced, call>>

\* the files of a folder once `video` has been moved out of it
Without(files, video) == SelectSeq(files, LAMBDA x : x # video)

\* what a move and the copies `made` after it leave behind
Relocate(video, dst, left, made) ==
  /\ moves' = Append(moves, [folder |-> job.folder, file |-> video,
                             dst |-> dst, overwrote |-> dst \in dest])
  /\ copies' = copies \o [i \in 1..Len(made) |->
                  [folder |-> job.folder, sub |-> made[i].sub,
                   video |-> video, candidates |-> job.video_files,
                   dst |-> made[i].dst, overwrote |-> made[i].overwrote]]
  /\ dest' = dest \cup {dst} \cup {made[i].dst : i \in 1..Len(made)}
  /\ watch' = [watch EXCEPT ![job.folder] = Present(left)]

\* shutil.move(video, dst), then copy_subtitles for target t
MoveTo(video, dst, t, left) ==
  \E made \in {copy_subtitles(dest \cup {dst}, left, t.folder, t.base_name,
                               ResolutionOf[video])} :
    Relocate(video, dst, left, made)

\* shutil.move of the video to dest_path, then copy_subtitles
MoveVideo ==
  /\ job.active /\ job.dest_path # None
  /\ MoveTo(Head(job.videos), job.dest_path[1],
            TargetOf[job.kind, job.folder, Head(job.videos)],
            Without(watch[job.folder].files, Head(job.videos)))
  /\ job' = [job EXCEPT !.videos = Tail(@), !.dest_path = None]
  /\ UNCHANGED <<events, pending, observing, pc, todo, arrivals, returned,
                 raced, call>>

\* _cleanup_folder removes the source folder if it is empty; process_folder
\* returns, and process_pending then removes the folder from pending_folders
FinishJob ==
  /\ job.active /\ job.dest_path = None /\ job.videos = <<>>
  /\ watch' = [watch EXCEPT ![job.folder] =
                                IF @.files = <<>> THEN Absent ELSE @]
  /\ returned' = Some([folder |-> job.folder, kind |-> job.kind,
                       before |-> job.before,
                       after |-> watch[job.folder].files,
                       first_move |-> job.first_move,
                       last_move |-> Len(moves)])
  /\ pending' = IF job.from_pending THEN pending \ {job.folder} ELSE pending
  /\ job' = NoJob
  /\ UNCHANGED <<dest, events, observing, pc, todo, moves, copies, arrivals,
                 raced, call>>

Next ==
  \/ \E f \in FolderNames, files \in FolderContents : Arrive(f, files)
  \/ \E f \in FolderNames : OnCreated(f)
  \/ ScanBegin \/ ScanVisit \/ ScanEnd
  \/ StartObserver \/ Sleep
  \/ PendingBegin \/ PendingVisit \/ PendingEnd
  \/ SkipVideo \/ DecideDest \/ MoveVideo \/ FinishJob

Spec == Init /\ [][Next]_vars

\* the steps of the polling thread: main's scans, process_pending and the
\* process_folder calls they make
Poll ==
  \/ ScanBegin \/ ScanVisit \/ ScanEnd
  \/ StartObserver \/ Sleep
  \/ PendingBegin \/ PendingVisit \/ PendingEnd
  \/ SkipVideo \/ DecideDest \/ MoveVideo \/ FinishJob

\* the steps of the observer thread
Observe == \E f \in FolderNames : OnCreated(f)

\* the program with its two threads kept running: the polling loop of main
\* never stops (while True), and the observer delivers every event it has
\* queued; nothing obliges a download to arrive
LiveSpec == Spec /\ WF_vars(Poll) /\ WF_vars(Observe)

\* C11: every folder that on_created has added to pending_folders is
\* eventually removed from pending_folders while the polling loop keeps
\* running, also when the periodic scan has processed and deleted the
\* folder just before process_pending.
C11_PendingEventuallyRemoved ==
  \A f \in FolderNames : (f \in pending) ~> (f \notin pending)

\* every file the sorter has put into the destination tree, in order: the
\* moved videos and the copied subtitles
Relocations ==
  [i \in 1..Len(moves) |-> [dst |-> moves[i].dst,
                            overwrote |-> moves[i].overwrote]]
    \o [i \in 1..Len(copies) |-> [dst |-> copies[i].dst,
                                  overwrote |-> copies[i].overwrote]]

\* C3: whatever the interleaving of watcher events, arrivals and polls, no
\* two relocations are given the same destination path, and no relocated
\* file is written over a path that already existed.
C3_NoSharedDestination ==
  /\ \A i \in 1..Len(Relocations) : ~Relocations[i].overwrote
  /\ \A i, j \in 1..Len(Relocations) :
       i # j => Relocations[i].dst # Relocations[j].dst

\* C3 witness: an observer-thread step ran between a unique-path decision
\* and its move, and the same file of the same folder name has been moved
\* twice, to two different paths of one destination directory.
C3_Witness ==
  /\ raced
  /\ \E i, j \in 1..Len(moves) :
       /\ i < j
       /\ moves[i].folder = moves[j].folder
       /\ moves[i].file = moves[j].file
       /\ moves[i].dst # moves[j].dst

\* C6: every subtitle copied while a video is sorted is one that
\* match_subtitle_to_video matches to that video among the videos of the
\* source folder; a subtitle that matches no video is copied nowhere.
C6_OnlyMatchedSubtitles ==
  \A i \in 1..Len(copies) :
    match_subtitle_to_video(copies[i].sub, copies[i].candidates)
      = Some(copies[i].video)

\* the videos of a list of file names, as a set
VideosOf(files) == {files[i] : i \in {k \in 1..Len(files) : IsVideo(files[k])}}

\* the moves process_folder made during the call that returned last
MovesOfReturned ==
  returned[1].first_move..returned[1].last_move

\* C10 as stated: when process_folder has returned, every video that was in
\* the folder has been moved to exactly one destination path and none is
\* left in the source folder.
C10_EveryVideoRelocated ==
  returned # None =>
    /\ VideosOf(returned[1].after) = {}
    /\ \A v \in VideosOf(returned[1].before) :
         Cardinality({i \in MovesOfReturned : moves[i].file = v}) = 1

\* a video of a folder sorted as TV whose own name matches no TV pattern
NonTvInTvFolder(v) == returned[1].kind = "tv" /\ ~is_tv_show(v).is_tv

\* C10: when process_folder has returned, the videos left in the source
\* folder are exactly those of a folder sorted as TV whose own name matches
\* no TV pattern, and every other video that was in the folder has been
\* moved to exactly one destination path; a folder sorted as a movie keeps
\* no video.
C10_SkippedVideosStay ==
  returned # None =>
    /\ VideosOf(returned[1].after)
         = {v \in VideosOf(returned[1].before) : NonTvInTvFolder(v)}
    /\ \A v \in VideosOf(returned[1].before) :
         Cardinality({i \in MovesOfReturned : moves[i].file = v})
           = IF NonTvInTvFolder(v) THEN 0 ELSE 1

\* C10 witness: process_folder has returned from a folder sorted as TV,
\* having moved one video and left another behind.
C10_Witness ==
  /\ returned # None
  /\ returned[1].kind = "tv"
  /\ VideosOf(returned[1].after) # {}
  /\ MovesOfReturned # {}

---------------------------------------------------------------------------
(* clean_name applied once and twice to a bounded set of names              *)

MaxCleanPieces == 4

CleanPieces ==
  { <<"a">>, <<" ">>, <<".">>, <<"_">>, <<"[">>, <<"]">>,
    <<"4">>, <<"k">>, <<"K">>, <<"A","A","C">> }

CleanInputs == NamesUpTo(CleanPieces, MaxCleanPieces)

CleanInit ==
  /\ SysInit
  /\ \E x \in CleanInputs : call = [op |-> "clean_name", x |-> x, n |-> 0]

CleanOnce ==
  /\ call.op = "clean_name" /\ call.n = 0
  /\ call' = [op |-> "clean_name", x |-> call.x, n |-> 1,
              once |-> clean_name(call.x)]
  /\ UNCHANGED sysvars

CleanTwice ==
  /\ call.op = "clean_name" /\ call.n = 1
  /\ call' = [op |-> "clean_name", x |-> call.x, n |-> 2,
              once |-> call.once, twice |-> clean_name(call.once)]
  /\ UNCHANGED sysvars

CleanNext == CleanOnce \/ CleanTwice

SpecClean == CleanInit /\ [][CleanNext]_vars

\* C8: clean_name is idempotent: cleaning a cleaned name changes nothing.
C8_Idempotent ==
  (call.op = "clean_name" /\ call.n = 2) => call.twice = call.once

---------------------------------------------------------------------------
(* is_tv_show applied to a bounded set of names                            *)

MaxClassifyPieces == 4

ClassifyPieces ==
  { <<"a">>, <<".">>, <<"s">>, <<"e">>, <<"5">>,
    <<"S","1","e","2">>, <<"3","x","4">>,
    <<"s","e","a","s","o","n">>, <<"E","p","i","s","o","d","e">> }

ClassifyInputs == NamesUpTo(ClassifyPieces, MaxClassifyPieces)

ClassifyInit ==
  /\ SysInit
  /\ \E x \in ClassifyInputs : call = [op |-> "is_tv_show", x |-> x, n |-> 0]

Classify ==
  /\ call.op = "is_tv_show" /\ call.n = 0
  /\ call' = [op |-> "is_tv_show", x |-> call.x, n |-> 1,
              result |-> is_tv_show(call.x)]
  /\ UNCHANGED sysvars

ClassifyNext == Classify

SpecClassify == ClassifyInit /\ [][ClassifyNext]_vars

\* C9: is_tv_show answers from the first pattern of TV_PATTERNS (SxxEyy, then
\* NxNN, then Season..Episode) that matches anywhere in the name, with the
\* season, the episode and the cleaned text before that pattern's leftmost
\* match, also when a later pattern matches earlier in the name; the name is
\* a movie exactly when no pattern matches.
C9_PatternPriority ==
  (call.op = "is_tv_show" /\ call.n = 1) =>
    LET m1 == Search(1, call.x)
        m2 == Search(2, call.x)
        m3 == Search(3, call.x)
        r  == call.result
    IN  /\ m1.found => r = TvInfo(call.x, m1)
        /\ (~m1.found /\ m2.found) => r = TvInfo(call.x, m2)
        /\ (~m1.found /\ ~m2.found /\ m3.found) => r = TvInfo(call.x, m3)
        /\ (~r.is_tv) <=> (~m1.found /\ ~m2.found /\ ~m3.found)

\* a name where SxxEyy matches after the place where NxNN matches, parsed
C9_Witness ==
  /\ call.op = "is_tv_show" /\ call.n = 1
  /\ Search(1, call.x).found /\ Search(2, call.x).found
  /\ Search(2, call.x).start < Search(1, call.x).start
  /\ call.result.is_tv
  /\ call.result.season = Search(1, call.x).season

---------------------------------------------------------------------------
(* match_subtitle_to_video applied to bounded subtitle and video names     *)

MaxMatchPieces == 2
MaxVideos == 2

MatchPieces == { <<"a">>, <<"A",".","c","c">> }

MatchStems == NamesUpTo(MatchPieces, MaxMatchPieces) \ {<<>>}

SubtitleNames == {s \o <<".","s","r","t">> : s \in MatchStems}
VideoNames == {s \o <<".","m","k","v">> : s \in MatchStems}

MatchInit ==
  /\ SysInit
  /\ \E sub \in SubtitleNames, vs \in ListsUpTo(VideoNames, MaxVideos) :
       call = [op |-> "match", sub |-> sub, videos |-> vs, n |-> 0]

Match ==
  /\ call.op = "match" /\ call.n = 0
  /\ call' = [op |-> "match", sub |-> call.sub, videos |-> call.videos,
              n |-> 1,
              result |-> match_subtitle_to_video(call.sub, call.videos)]
  /\ UNCHANGED sysvars

MatchNext == Match

SpecMatch == MatchInit /\ [][MatchNext]_vars

\* the candidates, by position, that satisfy each rule of the matcher
RuleA(sub, vs) ==
  {i \in 1..Len(vs) :
     StripSubtitleTag(Lower(PathStem(sub))) = Lower(PathStem(vs[i]))}
RuleB(sub, vs) ==
  {i \in 1..Len(vs) : Lower(PathStem(sub)) = Lower(PathStem(vs[i]))}
RuleC(sub, vs) ==
  {i \in 1..Len(vs) :
     \/ IsSubstring(StripSubtitleTag(Lower(PathStem(sub))), Lower(PathStem(vs[i])))
     \/ IsSubstring(Lower(PathStem(vs[i])), StripSubtitleTag(Lower(PathStem(sub))))}

FirstOf(vs, I) == Some(vs[CHOOSE i \in I : \A j \in I : i <= j])

\* C7 as stated: the rules are tried one after the other over the whole
\* list: stripped equality, then unstripped equality, then containment; the
\* first candidate of the first rule with a match is returned, or none.
C7_StrictPriority ==
  (call.op = "match" /\ call.n = 1) =>
    LET a == RuleA(call.sub, call.videos)
        b == RuleB(call.sub, call.videos)
        c == RuleC(call.sub, call.videos)
    IN  call.result = IF a # {} THEN FirstOf(call.videos, a)
                      ELSE IF b # {} THEN FirstOf(call.videos, b)
                      ELSE IF c # {} THEN FirstOf(call.videos, c)
                      ELSE None

\* C7 amended: stripped and unstripped equality are one rule: the first
\* candidate whose name equals either is returned; failing that, the first
\* candidate in a containment either way with the stripped name; failing
\* that, none.
C7_ExactThenPartial ==
  (call.op = "match" /\ call.n = 1) =>
    LET ab == RuleA(call.sub, call.videos) \cup RuleB(call.sub, call.videos)
        c  == RuleC(call.sub, call.videos)
    IN  call.result = IF ab # {} THEN FirstOf(call.videos, ab)
                      ELSE IF c # {} THEN FirstOf(call.videos, c)
                      ELSE None

\* a candidate equal to the unstripped name stands before one equal to the
\* stripped name, and the earlier one is returned
C7_Witness ==
  /\ call.op = "match" /\ call.n = 1
  /\ Len(call.videos) = 2
  /\ 1 \in RuleB(call.sub, call.videos) /\ 1 \notin RuleA(call.sub, call.videos)
  /\ 2 \in RuleA(call.sub, call.videos)
  /\ call.videos[1] # call.videos[2]
  /\ call.result = Some(call.videos[1])

---------------------------------------------------------------------------
(* get_proper_name applied to every outcome of the lookup                  *)

MaxResults == 2

ResolveNames == { <<"m",".","4","K">>, <<"T">> }

\* the entries a results list is made of
ResultDicts ==
  LET names  == {<<>>, <<<<"T">>>>}
      dates  == {<<>>, <<JStr(<<>>)>>,
                 <<JStr(<<"1","9","9","9","-","0","1">>)>>, <<JNull>>}
      dict(n, t, d) ==
        [k \in (IF n = <<>> THEN {} ELSE {<<"name">>})
                \cup (IF t = <<>> THEN {} ELSE {<<"title">>})
                \cup (IF d = <<>> THEN {} ELSE {<<"release_date">>}) |->
           IF k = <<"name">> THEN JStr(n[1])
           ELSE IF k = <<"title">> THEN JStr(t[1])
           ELSE d[1]]
  IN  {JDict(dict(n, t, d)) : n \in names, t \in names, d \in dates}

ResultEntries == {JNull, JStr(<<"x">>), JNum(0), JNum(1)} \cup ResultDicts

\* the values of the 'results' key, <<>> for a body without the key
ResultsValues ==
  {<<>>, <<JNull>>, <<JStr(<<"a","b">>)>>, <<JNum(1)>>,
   <<JDict([k \in {<<"0">>} |-> JNum(1)])>>}
    \cup {<<JList(l)>> : l \in ListsUpTo(ResultEntries, MaxResults)}

Bodies ==
  {[t |-> "invalid"], JList(<<>>)}
    \cup {JDict([k \in (IF r = <<>> THEN {} ELSE {<<"results">>}) |-> r[1]]) :
            r \in ResultsValues}

Lookups ==
  {[key |-> FALSE]}
    \cup {[key |-> TRUE, transport |-> t] :
            t \in {"connection_error", "timeout", "http_error"}}
    \cup {[key |-> TRUE, transport |-> "ok", body |-> b] : b \in Bodies}

ResolveInit ==
  /\ SysInit
  /\ \E x \in ResolveNames, k \in {"tv", "movie"}, l \in Lookups :
       call = [op |-> "get_proper_name", name |-> x, media_type |-> k,
               lookup |-> l, n |-> 0]

Resolve ==
  /\ call.op = "get_proper_name" /\ call.n = 0
  /\ call' = [op |-> "get_proper_name", name |-> call.name,
              media_type |-> call.media_type, lookup |-> call.lookup, n |-> 1,
              result |-> get_proper_name(call.name, call.media_type,
                                         call.lookup)]
  /\ UNCHANGED sysvars

ResolveNext == Resolve

SpecResolve == ResolveInit /\ [][ResolveNext]_vars

\* the response is not of the shape the search API documents: not JSON, not
\* an object, 'results' not a list, or its first entry not an object
Malformed(l) ==
  /\ l.key /\ l.transport = "ok"
  /\ \/ l.body.t # "dict"
     \/ /\ <<"results">> \in DOMAIN l.body.v
        /\ \/ l.body.v[<<"results">>].t # "list"
           \/ /\ l.body.v[<<"results">>].v # <<>>
              /\ l.body.v[<<"results">>].v[1].t # "dict"

EmptyResults(l) ==
  /\ l.key /\ l.transport = "ok" /\ l.body.t = "dict"
  /\ \/ <<"results">> \notin DOMAIN l.body.v
     \/ l.body.v[<<"results">>] = JList(<<>>)

\* C5: with no API key, a network error, a timeout, an HTTP error, a
\* malformed response or an empty result list, get_proper_name returns
\* normally, and what it returns is the normalized title, without a year.
C5_NeverFails ==
  (/\ call.op = "get_proper_name" /\ call.n = 1
   /\ \/ ~call.lookup.key
      \/ call.lookup.transport # "ok"
      \/ Malformed(call.lookup)
      \/ EmptyResults(call.lookup))
    => call.result = Returned(clean_name(call.name))

---------------------------------------------------------------------------
(* get_unique_filename called again and again on one directory, each       *)
(* returned path recorded as existing before the next call                 *)

MaxVersion == 3
MaxCalls == 2

NamerDir == << <<"M","o","v","i","e","s">>, <<"m">> >>
NamerBase == <<"m">>
NamerExt == <<".","m","k","v">>
NamerResolutions == {NoResolution, <<"1","0","8","0","p">>, <<"7","2","0","p">>}

\* the path of version v of an identity: version 1 carries no suffix
PathOf(resolution, v) ==
  Join(NamerDir, IF v = 1 THEN CandidateName(NamerBase, NamerExt, resolution)
                 ELSE VersionedName(NamerBase, NamerExt, resolution, v))

NamerUniverse == {PathOf(r, v) : r \in NamerResolutions, v \in 1..MaxVersion}

NamerInit ==
  /\ SysInit
  /\ \E ex \in SUBSET NamerUniverse :
       call = [op |-> "get_unique_filename", exists0 |-> ex, exists |-> ex,
               history |-> <<>>]

NamerCall(resolution) ==
  /\ call.op = "get_unique_filename"
  /\ Len(call.history) < MaxCalls
  /\ LET r == get_unique_filename(call.exists, NamerDir, NamerBase, NamerExt,
                                  resolution)
     IN  call' = [call EXCEPT
                    !.history = Append(@, [resolution |-> resolution,
                                           before |-> call.exists,
                                           result |-> r]),
                    !.exists = IF r.status = "returned" THEN @ \cup {r.path}
                               ELSE @]
  /\ UNCHANGED sysvars

NamerNext == \E resolution \in NamerResolutions : NamerCall(resolution)

SpecNamer == NamerInit /\ [][NamerNext]_vars

NamerCalls == IF call.op = "get_unique_filename" THEN call.history ELSE <<>>

\* the versions of an identity that exist in ex, and the first free one
Occupied(ex, resolution) ==
  {v \in 1..(MaxVersion + MaxCalls) : PathOf(resolution, v) \in ex}
FirstFree(ex, resolution) ==
  CHOOSE v \in 1..(MaxVersion + MaxCalls + 1) :
    /\ PathOf(resolution, v) \notin ex
    /\ \A w \in 1..(v - 1) : PathOf(resolution, w) \in ex

\* C1: from a directory with no file of an identity, the calls for that
\* identity never return the same path twice, and the first of them returns
\* the name without a version suffix.
C1_NeverSamePathTwice ==
  \A resolution \in NamerResolutions :
    LET mine == {i \in 1..Len(NamerCalls) :
                   NamerCalls[i].resolution = resolution}
    IN  (mine # {} /\ Occupied(call.exists0, resolution) = {}) =>
          /\ \A i, j \in mine :
               i # j => NamerCalls[i].result.path # NamerCalls[j].result.path
          /\ NamerCalls[CHOOSE i \in mine : \A j \in mine : i <= j].result.path
               = Join(NamerDir, CandidateName(NamerBase, NamerExt, resolution))

\* two calls for one identity from a directory without it: the second
\* returned the .v2 name
C1_Witness ==
  \E resolution \in NamerResolutions :
    /\ Len(NamerCalls) = 2
    /\ Occupied(call.exists0, resolution) = {}
    /\ NamerCalls[1].resolution = resolution
    /\ NamerCalls[2].resolution = resolution
    /\ NamerCalls[2].result.path = PathOf(resolution, 2)

\* C2: a call returns the unsuffixed name when that path is free, otherwise
\* the .vN name of the smallest N >= 2 whose path is free; it probes the
\* versions in increasing order, what it returns does not exist when it
\* decides, and the files of other resolution tags do not change the result.
C2_FirstFreeVersion ==
  \A i \in 1..Len(NamerCalls) :
    LET c == NamerCalls[i]
        n == FirstFree(c.before, c.resolution)
        same == {PathOf(c.resolution, v) : v \in 1..(MaxVersion + MaxCalls)}
    IN  /\ c.result.status = "returned"
        /\ c.result.path = PathOf(c.resolution, n)
        /\ c.result.path \notin c.before
        /\ c.result.probed = [k \in 1..n |-> k]
        /\ c.result.path =
             get_unique_filename(c.before \cap same, NamerDir, NamerBase,
                                 NamerExt, c.resolution).path

\* a call that met versions 1 and 2 of its own resolution and a free
\* version 1 of another resolution, and returned .v3
C2_Witness ==
  \E i \in 1..Len(NamerCalls) :
    LET c == NamerCalls[i]
    IN  /\ c.resolution = <<"1","0","8","0","p">>
        /\ Occupied(c.before, c.resolution) = {1, 2}
        /\ PathOf(<<"7","2","0","p">>, 1) \notin c.before
        /\ PathOf(NoResolution, 2) \in c.before
        /\ c.result.path = PathOf(c.resolution, 3)

\* C4 as stated: there is a bound on the probes: a call that meets more
\* consecutive occupied versions than the bound raises CollisionExhaustion
\* instead of returning a path.
C4_CollisionExhaustion ==
  \E bound \in 1..(MaxVersion - 1) :
    \A i \in 1..Len(NamerCalls) :
      FirstFree(NamerCalls[i].before, NamerCalls[i].resolution) - 1 > bound
        => /\ NamerCalls[i].result.status = "raised"
           /\ NamerCalls[i].result.error = "CollisionExhaustion"

\* C4 amended: the probe loop has no bound and raises nothing: however many
\* consecutive versions are occupied, the call probes every one of them and
\* returns the first free version.
C4_NoProbeBound ==
  \A i \in 1..Len(NamerCalls) :
    LET c == NamerCalls[i]
        run == FirstFree(c.before, c.resolution) - 1
    IN  /\ c.result.status = "returned"
        /\ Len(c.result.probed) = run + 1
        /\ c.result.path = PathOf(c.resolution, run + 1)

\* a call that met every version up to MaxVersion occupied and returned the
\* next one
C4_Witness ==
  \E i \in 1..Len(NamerCalls) :
    LET c == NamerCalls[i]
    IN  /\ Occupied(c.before, c.resolution) = 1..MaxVersion
        /\ c.result.status = "returned"
        /\ c.result.path = PathOf(c.resolution, MaxVersion + 1)

=============================================================================
